---- MODULE Spec2Model ----
(***************************************************************************)
(* A model of rustle (src/main.rs): a terminal word-guessing game.         *)
(*                                                                         *)
(* A Rust String is modelled as a sequence of one-character strings, a     *)
(* ColoredString as a record [input |-> character, fgcolor |-> colour],    *)
(* a HashSet<char> as a set and a HashMap<char, i32> as a function.        *)
(***************************************************************************)
EXTENDS Integers, Sequences, FiniteSets, TLC

VARIABLES
    all_words,        \* ALL_WORDS: the raw text of the word list (its lines)
    dictionary,       \* RustleGame.dictionary
    word,             \* RustleGame.word
    guessed_letters,  \* RustleGame.guessed_letters
    guesses,          \* RustleGame.guesses
    guess,            \* the local `guess` of ask_for_guess / main
    c_string,         \* the value colorize_guess returned last
    out,              \* the last message written to the console
    pc                \* where the control thread is

vars == <<all_words, dictionary, word, guessed_letters, guesses, guess, c_string, out, pc>>

----------------------------------------------------------------------------
(* Program constants *)

WORD_LENGTH == 5
MAX_TRIES == 6

CORRECT_COLOR == "BrightGreen"
MISPLACED_COLOR == "BrightYellow"
INCORRECT_COLOR == "BrightRed"

(* The number of lines words_list skips at the head of ALL_WORDS *)
SKIP_LINES == 2

----------------------------------------------------------------------------
(* Bounds of the model *)

\* how many letters of the alphabet the scorer's inputs are drawn from
NumLetters == 2
\* the longest word the scorer is applied to on its own
MaxScoreLen == 4
\* how many lines follow the header lines of the word list
MaxLines == 2

----------------------------------------------------------------------------
(* Characters *)

Upper ==
    <<"A", "B", "C", "D", "E", "F", "G", "H", "I", "J", "K", "L", "M", "N", "O", "P", "Q", "R", "S", "T", "U", "V", "W", "X", "Y", "Z">>
Lower ==
    <<"a", "b", "c", "d", "e", "f", "g", "h", "i", "j", "k", "l", "m", "n", "o", "p", "q", "r", "s", "t", "u", "v", "w", "x", "y", "z">>

Range(s) == {s[i] : i \in DOMAIN s}

Letters == {Upper[i] : i \in 1..NumLetters}

is_whitespace(ch) == ch \in {" ", "\n", "\t"}

AsciiAlphabetic == Range(Upper) \cup Range(Lower)

is_ascii_alphabetic(ch) == ch \in AsciiAlphabetic

UppercaseOfLower == [ch \in Range(Lower) |-> Upper[CHOOSE i \in DOMAIN Lower : Lower[i] = ch]]

char_to_uppercase(ch) == IF ch \in DOMAIN UppercaseOfLower THEN UppercaseOfLower[ch] ELSE ch

RECURSIVE trim_start(_)
trim_start(s) ==
    IF s # <<>> /\ is_whitespace(Head(s)) THEN trim_start(Tail(s)) ELSE s

RECURSIVE trim_end(_)
trim_end(s) ==
    IF s # <<>> /\ is_whitespace(s[Len(s)])
    THEN trim_end(SubSeq(s, 1, Len(s) - 1))
    ELSE s

trim(s) == trim_end(trim_start(s))

\* the uppercase form of one character: str::to_uppercase turns the sharp s into two
\* characters, every other character of the model into one
uppercase_of(ch) == IF ch = "ß" THEN <<"S", "S">> ELSE <<char_to_uppercase(ch)>>

RECURSIVE to_uppercase(_)
to_uppercase(s) ==
    IF s = <<>> THEN <<>> ELSE uppercase_of(Head(s)) \o to_uppercase(Tail(s))

\* sanitize_word without to_uppercase
sanitize_word_case_kept(w) == SelectSeq(trim(w), is_ascii_alphabetic)

sanitize_word(w) == SelectSeq(to_uppercase(trim(w)), is_ascii_alphabetic)

----------------------------------------------------------------------------
(* The word list *)

\* split('\n') has already been applied: a text is the sequence of its lines
\* skip that stops one line early
skip_one_fewer(lines, n) ==
    IF Len(lines) <= n - 1 THEN <<>> ELSE SubSeq(lines, n, Len(lines))

skip(lines, n) == IF Len(lines) <= n THEN <<>> ELSE SubSeq(lines, n + 1, Len(lines))

\* a filter that lets every line through
has_word_length_any(line) == Len(line) >= 0

has_word_length(line) == Len(line) = WORD_LENGTH

words_list(text) ==
    SelectSeq([i \in DOMAIN skip(text, SKIP_LINES) |-> sanitize_word(skip(text, SKIP_LINES)[i])],
              has_word_length)

----------------------------------------------------------------------------
(* colorize_guess: the scorer *)

ColoredString(c, col) == [input |-> c, fgcolor |-> col]

is_color(cs, col) == cs = ColoredString(cs.input, col)

\* char_count.entry(c).and_modify(|e| *e -= 1): nothing happens for a missing key
and_modify_decrement(char_count, c) ==
    IF c \in DOMAIN char_count THEN [char_count EXCEPT ![c] = @ - 1] ELSE char_count

\* the closure of create_charmap: entry(c).or_insert(0), then += 1
charmap_insert(charmap, c) ==
    IF c \in DOMAIN charmap
    THEN [charmap EXCEPT ![c] = @ + 1]
    ELSE charmap @@ (c :> 1)

RECURSIVE charmap_from(_, _, _)
charmap_from(w, k, charmap) ==
    IF k > Len(w) THEN charmap ELSE charmap_from(w, k + 1, charmap_insert(charmap, w[k]))

create_charmap(w) == charmap_from(w, 1, <<>>)

\* guess.chars().map(|c| c.to_string().color(INCORRECT_COLOR)).collect()
initial_guess_array(g) == [i \in DOMAIN g |-> ColoredString(g[i], INCORRECT_COLOR)]

\* "Set the correct letters to green": the closure run for (pos, c).
\* st is [guess_array, char_count]; positions count from 1 here, from 0 in the source.
set_correct(w, st, pos, c) ==
    IF w[pos] = c
    THEN [guess_array |-> [st.guess_array EXCEPT ![pos] = ColoredString(c, CORRECT_COLOR)],
          char_count |-> and_modify_decrement(st.char_count, c)]
    ELSE st

RECURSIVE correct_pass(_, _, _, _)
correct_pass(w, g, pos, st) ==
    IF pos > Len(g) THEN st ELSE correct_pass(w, g, pos + 1, set_correct(w, st, pos, g[pos]))

\* set_misplaced without the test of the letter's remaining count
set_misplaced_uncounted(st, pos, c, i, ch) ==
    IF is_color(st.guess_array[i], CORRECT_COLOR)
    THEN st
    ELSE IF ch = c
         THEN [guess_array |-> [st.guess_array EXCEPT ![pos] = ColoredString(c, MISPLACED_COLOR)],
               char_count |-> and_modify_decrement(st.char_count, c)]
         ELSE st

\* set_misplaced with `> 1` for `> 0`
set_misplaced_above_one(st, pos, c, i, ch) ==
    IF is_color(st.guess_array[i], CORRECT_COLOR)
    THEN st
    ELSE IF ch = c /\ st.char_count[c] > 1
         THEN [guess_array |-> [st.guess_array EXCEPT ![pos] = ColoredString(c, MISPLACED_COLOR)],
               char_count |-> and_modify_decrement(st.char_count, c)]
         ELSE st

\* "Set the correct but misplaced letters to yellow": the inner closure, run for the
\* guess position pos holding c and the secret position i holding ch.
set_misplaced(st, pos, c, i, ch) ==
    IF is_color(st.guess_array[i], CORRECT_COLOR)
    THEN st
    ELSE IF ch = c /\ st.char_count[c] > 0
         THEN [guess_array |-> [st.guess_array EXCEPT ![pos] = ColoredString(c, MISPLACED_COLOR)],
               char_count |-> and_modify_decrement(st.char_count, c)]
         ELSE st

RECURSIVE scan_word(_, _, _, _, _)
scan_word(w, pos, c, i, st) ==
    IF i > Len(w) THEN st ELSE scan_word(w, pos, c, i + 1, set_misplaced(st, pos, c, i, w[i]))

\* the outer closure without its return at a green position
misplaced_at_green_too(w, st, pos, c) == scan_word(w, pos, c, 1, st)

\* the outer closure of the second pass, run for (pos, c)
misplaced_at(w, st, pos, c) ==
    IF is_color(st.guess_array[pos], CORRECT_COLOR) THEN st ELSE scan_word(w, pos, c, 1, st)

\* the second pass run over the guess from its last position to its first
RECURSIVE misplaced_pass_backwards(_, _, _, _)
misplaced_pass_backwards(w, g, pos, st) ==
    IF pos > Len(g)
    THEN st
    ELSE misplaced_at(w, misplaced_pass_backwards(w, g, pos + 1, st), pos, g[pos])

RECURSIVE misplaced_pass(_, _, _, _)
misplaced_pass(w, g, pos, st) ==
    IF pos > Len(g) THEN st ELSE misplaced_pass(w, g, pos + 1, misplaced_at(w, st, pos, g[pos]))

\* the closure of the last loop: a position neither green nor yellow gives its letter
\* to guessed_letters
insert_incorrect(letters, guess_array, pos, c) ==
    IF ~is_color(guess_array[pos], CORRECT_COLOR) /\ ~is_color(guess_array[pos], MISPLACED_COLOR)
    THEN letters \cup {c}
    ELSE letters

\* the last loop started at the second position of the guess
RECURSIVE incorrect_pass_from_second(_, _, _, _)
incorrect_pass_from_second(g, guess_array, pos, letters) ==
    IF pos > Len(g)
    THEN letters
    ELSE IF pos = 1
    THEN incorrect_pass_from_second(g, guess_array, 2, letters)
    ELSE incorrect_pass_from_second(g, guess_array, pos + 1,
                                    insert_incorrect(letters, guess_array, pos, g[pos]))

RECURSIVE incorrect_pass(_, _, _, _)
incorrect_pass(g, guess_array, pos, letters) ==
    IF pos > Len(g)
    THEN letters
    ELSE incorrect_pass(g, guess_array, pos + 1, insert_incorrect(letters, guess_array, pos, g[pos]))

\* a scorer that colours a letter already in guessed_letters red without looking
colorize_guess_known_letters(self, g) ==
    LET st0 == [guess_array |-> initial_guess_array(g), char_count |-> create_charmap(self.word)]
        st1 == correct_pass(self.word, g, 1, st0)
        st2 == misplaced_pass(self.word, g, 1, st1)
        known == [i \in DOMAIN g |->
                    IF g[i] \in self.guessed_letters
                    THEN ColoredString(g[i], INCORRECT_COLOR)
                    ELSE st2.guess_array[i]]
    IN  [guess_array |-> known,
         self |-> [self EXCEPT !.guessed_letters = incorrect_pass(g, known, 1, @)]]

\* a scorer that starts guessed_letters afresh at each call
colorize_guess_fresh_letters(self, g) ==
    LET st0 == [guess_array |-> initial_guess_array(g), char_count |-> create_charmap(self.word)]
        st1 == correct_pass(self.word, g, 1, st0)
        st2 == misplaced_pass(self.word, g, 1, st1)
    IN  [guess_array |-> st2.guess_array,
         self |-> [self EXCEPT !.guessed_letters = incorrect_pass(g, st2.guess_array, 1, {})]]

\* colorize_guess(&mut self, guess): the returned guess_array and the game after the call
colorize_guess(self, g) ==
    LET st0 == [guess_array |-> initial_guess_array(g), char_count |-> create_charmap(self.word)]
        st1 == correct_pass(self.word, g, 1, st0)
        st2 == misplaced_pass(self.word, g, 1, st1)
    IN  [guess_array |-> st2.guess_array,
         self |-> [self EXCEPT !.guessed_letters = incorrect_pass(g, st2.guess_array, 1, @)]]

----------------------------------------------------------------------------
(* The game *)

\* the RustleGame the control thread owns
Self == [dictionary |-> dictionary, word |-> word,
         guessed_letters |-> guessed_letters, guesses |-> guesses]

Message(kind, w, n, letters) == [kind |-> kind, word |-> w, n_tries |-> n, letters |-> letters]

NoMessage == Message("none", <<>>, 0, {})

\* dictionary.iter().any(|word| word == &guess)
in_dictionary(self, g) == \E i \in DOMAIN self.dictionary : self.dictionary[i] = g

\* a turn that scores and records a five-letter guess the dictionary does not hold
ask_for_guess_turn_unknown_scored(self, line) ==
    LET g == sanitize_word(line)
        scored == colorize_guess(self, g)
    IN  IF Len(g) # WORD_LENGTH
        THEN [guess |-> g, valid_guess |-> FALSE, c_string |-> <<>>, self |-> self,
              out |-> Message("must_be_letters", <<>>, WORD_LENGTH, {})]
        ELSE IF ~in_dictionary(self, g)
        THEN [guess |-> g, valid_guess |-> FALSE, c_string |-> scored.guess_array,
              self |-> [scored.self EXCEPT !.guesses = Append(@, scored.guess_array)],
              out |-> Message("not_in_dictionary", g, 0, {})]
        ELSE [guess |-> g, valid_guess |-> TRUE, c_string |-> scored.guess_array,
              self |-> [scored.self EXCEPT !.guesses = Append(@, scored.guess_array)],
              out |-> NoMessage]

\* a turn that looks the guess up in the dictionary before it looks at its length
ask_for_guess_turn_dictionary_first(self, line) ==
    LET g == sanitize_word(line)
        scored == colorize_guess(self, g)
    IN  IF ~in_dictionary(self, g)
        THEN [guess |-> g, valid_guess |-> FALSE, c_string |-> <<>>, self |-> self,
              out |-> Message("not_in_dictionary", g, 0, {})]
        ELSE IF Len(g) # WORD_LENGTH
        THEN [guess |-> g, valid_guess |-> FALSE, c_string |-> <<>>, self |-> self,
              out |-> Message("must_be_letters", <<>>, WORD_LENGTH, {})]
        ELSE [guess |-> g, valid_guess |-> TRUE, c_string |-> scored.guess_array,
              self |-> [scored.self EXCEPT !.guesses = Append(@, scored.guess_array)],
              out |-> NoMessage]

\* a turn that puts the scored guess at the head of the history
ask_for_guess_turn_insert_first(self, line) ==
    LET g == sanitize_word(line)
        scored == colorize_guess(self, g)
    IN  IF Len(g) # WORD_LENGTH
        THEN [guess |-> g, valid_guess |-> FALSE, c_string |-> <<>>, self |-> self,
              out |-> Message("must_be_letters", <<>>, WORD_LENGTH, {})]
        ELSE IF ~in_dictionary(self, g)
        THEN [guess |-> g, valid_guess |-> FALSE, c_string |-> <<>>, self |-> self,
              out |-> Message("not_in_dictionary", g, 0, {})]
        ELSE [guess |-> g, valid_guess |-> TRUE, c_string |-> scored.guess_array,
              self |-> [scored.self EXCEPT !.guesses = <<scored.guess_array>> \o @],
              out |-> NoMessage]

\* one turn of the `while !valid_guess` loop of ask_for_guess on the line read from
\* stdin: the sanitized guess, whether it was accepted, what was printed and the game
\* after the turn
ask_for_guess_turn(self, line) ==
    LET g == sanitize_word(line)
        scored == colorize_guess(self, g)
    IN  IF Len(g) # WORD_LENGTH
        THEN [guess |-> g, valid_guess |-> FALSE, c_string |-> <<>>, self |-> self,
              out |-> Message("must_be_letters", <<>>, WORD_LENGTH, {})]
        ELSE IF ~in_dictionary(self, g)
        THEN [guess |-> g, valid_guess |-> FALSE, c_string |-> <<>>, self |-> self,
              out |-> Message("not_in_dictionary", g, 0, {})]
        ELSE [guess |-> g, valid_guess |-> TRUE, c_string |-> scored.guess_array,
              self |-> [scored.self EXCEPT !.guesses = Append(@, scored.guess_array)],
              out |-> NoMessage]

\* is_game_over with `>` for `>=`
is_game_over_one_more(self, g) ==
    LET n_tries == Len(self.guesses)
    IN  IF g = self.word
        THEN [over |-> TRUE, out |-> Message("correct", <<>>, n_tries, {})]
        ELSE IF n_tries > MAX_TRIES
        THEN [over |-> TRUE, out |-> Message("out_of_tries", self.word, 0, {})]
        ELSE [over |-> FALSE, out |-> NoMessage]

\* is_game_over with the count of tries looked at before the guess
is_game_over_tries_first(self, g) ==
    LET n_tries == Len(self.guesses)
    IN  IF n_tries >= MAX_TRIES
        THEN [over |-> TRUE, out |-> Message("out_of_tries", self.word, 0, {})]
        ELSE IF g = self.word
        THEN [over |-> TRUE, out |-> Message("correct", <<>>, n_tries, {})]
        ELSE [over |-> FALSE, out |-> NoMessage]

\* is_game_over(&self, guess): the returned flag and what was printed
is_game_over(self, g) ==
    LET n_tries == Len(self.guesses)
    IN  IF g = self.word
        THEN [over |-> TRUE, out |-> Message("correct", <<>>, n_tries, {})]
        ELSE IF n_tries >= MAX_TRIES
        THEN [over |-> TRUE, out |-> Message("out_of_tries", self.word, 0, {})]
        ELSE [over |-> FALSE, out |-> NoMessage]

----------------------------------------------------------------------------
(* The inputs: lines of the word list and lines typed by the player *)

RawLines ==
    { <<"a", "a", "b", "b", "c">>,
      <<" ", "B", "b", "A", "a", "C">>,
      <<"c", "a", "-", "b", "a", "b">>,
      <<>>,
      <<"a", "b", "c">>,
      <<"a", "a", "b", "b", "c", "c">> }

\* the two lines at the head of the word list; the first would pass for a word
Header == << <<"a", "b", "c", "a", "b">>, <<"-", "-">> >>

Texts == {Header \o body : body \in UNION {[1..n -> RawLines] : n \in 0..MaxLines}}

\* read_line keeps the line's newline
StdinLines == {line \o <<"\n">> : line \in RawLines}

\* the words the scorer is applied to on its own
ScoreWords == UNION {[1..n -> Letters] : n \in 1..MaxScoreLen}

----------------------------------------------------------------------------
(* main *)

\* RustleGame::new(): random_slice_entry(..).unwrap() needs a word to return
Init ==
    /\ all_words \in Texts
    /\ dictionary = words_list(all_words)
    /\ dictionary # <<>>
    /\ word \in Range(dictionary)
    /\ guessed_letters = {}
    /\ guesses = <<>>
    /\ guess = <<>>
    /\ c_string = <<>>
    /\ out = NoMessage
    /\ pc = "loop"

\* the head of the loop in a main whose loop has no break
BeginAsk_without_break ==
    /\ pc \in {"loop", "exit"}
    /\ out' = Message("enter_your_guess", <<>>, WORD_LENGTH, guessed_letters)
    /\ guess' = <<>>
    /\ c_string' = <<>>
    /\ pc' = "read_line"
    /\ UNCHANGED <<all_words, dictionary, word, guessed_letters, guesses>>

\* the head of the loop of main and of ask_for_guess: display_guesses, the prompt,
\* display_invalid_letters, and the fresh `guess`
BeginAsk ==
    /\ pc = "loop"
    /\ out' = Message("enter_your_guess", <<>>, WORD_LENGTH, guessed_letters)
    /\ guess' = <<>>
    /\ c_string' = <<>>
    /\ pc' = "read_line"
    /\ UNCHANGED <<all_words, dictionary, word, guessed_letters, guesses>>

\* a turn of the while loop: read a line, sanitize it, reject it or score it
ReadLine ==
    /\ pc = "read_line"
    /\ \E line \in StdinLines :
          LET turn == ask_for_guess_turn(Self, line)
          IN  /\ guess' = turn.guess
              /\ c_string' = turn.c_string
              /\ guessed_letters' = turn.self.guessed_letters
              /\ guesses' = turn.self.guesses
              /\ dictionary' = turn.self.dictionary
              /\ word' = turn.self.word
              /\ out' = turn.out
              /\ pc' = IF turn.valid_guess THEN "is_game_over" ELSE "read_line"
    /\ UNCHANGED all_words

\* main: if game.is_game_over(&guess) { break; }
IsGameOver ==
    /\ pc = "is_game_over"
    /\ LET over == is_game_over(Self, guess)
       IN  /\ out' = over.out
           /\ pc' = IF over.over THEN "exit" ELSE "loop"
    /\ UNCHANGED <<all_words, dictionary, word, guessed_letters, guesses, guess, c_string>>

Next == BeginAsk \/ ReadLine \/ IsGameOver

Spec == Init /\ [][Next]_vars

\* whenever the while loop of ask_for_guess waits for a line, the player types, in
\* the end, one the game accepts
PlayerGuessesInTheEnd == (pc = "read_line") ~> (pc = "is_game_over")

\* The control thread goes on from the head of the loop and from is_game_over by
\* itself; the lines typed are up to the player.
SpecLive ==
    /\ Init
    /\ [][Next]_vars
    /\ WF_vars(BeginAsk)
    /\ WF_vars(IsGameOver)
    /\ PlayerGuessesInTheEnd

----------------------------------------------------------------------------
(* The scorer on its own, as the tests call it: a game whose word is set, then one
   call of colorize_guess *)

TestText == Header \o << <<"a", "a", "b", "b", "c">> >>

InitScore ==
    /\ all_words = TestText
    /\ dictionary = words_list(all_words)
    /\ word \in ScoreWords
    /\ guessed_letters = {}
    /\ guesses = <<>>
    /\ guess = <<>>
    /\ c_string = <<>>
    /\ out = NoMessage
    /\ pc = "test"

TestColorizeGuess ==
    /\ pc = "test"
    /\ \E g \in [1..Len(word) -> Letters] :
          LET scored == colorize_guess(Self, g)
          IN  /\ guess' = g
              /\ c_string' = scored.guess_array
              /\ guessed_letters' = scored.self.guessed_letters
              /\ guesses' = scored.self.guesses
    /\ pc' = "tested"
    /\ UNCHANGED <<all_words, dictionary, word, out>>

NextScore == TestColorizeGuess

SpecScore == InitScore /\ [][NextScore]_vars

----------------------------------------------------------------------------
(* sanitize_word on its own, as test_sanitize_word calls it, and once more on its
   own result *)

\* how long a string handed to sanitize_word is
MaxRawLen == 3

RawChars == {"a", "B", " ", "-", "ß"}

HelloWorld == <<"h", "e", "l", "l", "o", " ", "w", "o", "r", "l", "d">>

RawStrings == UNION {[1..n -> RawChars] : n \in 0..MaxRawLen} \cup {HelloWorld}

InitSanitize ==
    /\ all_words = TestText
    /\ dictionary = words_list(all_words)
    /\ word = dictionary[1]
    /\ guessed_letters = {}
    /\ guesses = <<>>
    /\ guess \in RawStrings
    /\ c_string = <<>>
    /\ out = NoMessage
    /\ pc = "raw"

SanitizeWord ==
    /\ pc \in {"raw", "sanitized"}
    /\ guess' = sanitize_word(guess)
    /\ pc' = IF pc = "raw" THEN "sanitized" ELSE "sanitized_twice"
    /\ UNCHANGED <<all_words, dictionary, word, guessed_letters, guesses, c_string, out>>

NextSanitize == SanitizeWord

SpecSanitize == InitSanitize /\ [][NextSanitize]_vars

----------------------------------------------------------------------------
(* words_list on its own, on word lists whose head lines are any lines at all *)

AnyTexts == UNION {[1..n -> RawLines] : n \in 0..(SKIP_LINES + MaxLines)}

InitWordsList ==
    /\ all_words \in AnyTexts
    /\ dictionary = <<>>
    /\ word = <<>>
    /\ guessed_letters = {}
    /\ guesses = <<>>
    /\ guess = <<>>
    /\ c_string = <<>>
    /\ out = NoMessage
    /\ pc = "words_list"

WordsList ==
    /\ pc = "words_list"
    /\ dictionary' = words_list(all_words)
    /\ pc' = "loaded"
    /\ UNCHANGED <<all_words, word, guessed_letters, guesses, guess, c_string, out>>

NextWordsList == WordsList

SpecWordsList == InitWordsList /\ [][NextWordsList]_vars

----------------------------------------------------------------------------
(* The states of the game *)

AwaitingGuess == pc \in {"loop", "read_line"}
Scoring == pc = "is_game_over"
Won == pc = "exit" /\ out.kind = "correct"
Lost == pc = "exit" /\ out.kind = "out_of_tries"

\* the characters of a scored guess
Chars(colored) == [i \in DOMAIN colored |-> colored[i].input]

\* no guess of the history is the secret word
NoExactMatch == \A k \in DOMAIN guesses : Chars(guesses[k]) # word

Count(w, c) == Cardinality({i \in DOMAIN w : w[i] = c})

\* the positions of the scored guess that hold c and are green or yellow
Marked(c) ==
    {i \in DOMAIN c_string :
        /\ c_string[i].input = c
        /\ c_string[i].fgcolor \in {CORRECT_COLOR, MISPLACED_COLOR}}

Absent(i) == c_string[i].fgcolor = INCORRECT_COLOR

----------------------------------------------------------------------------
(* Claims *)

\* C1: the game is Lost exactly when MAX_TRIES guesses have been accepted and none of
\* them is the secret word: it is never Lost with fewer, a finished game with
\* MAX_TRIES guesses and no match is Lost, and no guess is awaited once MAX_TRIES
\* guesses are in the history.
C1_LostExactlyAtMaxTries ==
    /\ Lost => (Len(guesses) = MAX_TRIES /\ NoExactMatch)
    /\ (pc = "exit" /\ Len(guesses) = MAX_TRIES /\ NoExactMatch) => Lost
    /\ out.kind = "out_of_tries" => pc = "exit"
    /\ AwaitingGuess => Len(guesses) < MAX_TRIES
    /\ Len(guesses) <= MAX_TRIES

C1_Witness == Lost /\ Len(guesses) = MAX_TRIES

\* C2: the game is Won right after the first accepted guess that is the secret word,
\* whatever its number from 1 to MAX_TRIES (the sixth included), and the count printed
\* with the win is the number of accepted guesses, the winning one included.
C2_WonOnFirstMatch ==
    /\ AwaitingGuess => NoExactMatch
    /\ (pc = "exit" /\ ~NoExactMatch) => Won
    /\ out.kind = "correct" => pc = "exit"
    /\ Won => /\ Len(guesses) \in 1..MAX_TRIES
              /\ Chars(guesses[Len(guesses)]) = word
              /\ \A k \in 1..(Len(guesses) - 1) : Chars(guesses[k]) # word
              /\ out.n_tries = Len(guesses)

C2_Witness == Won /\ Len(guesses) = MAX_TRIES

\* C3: a letter is added to guessed_letters by a scoring only if every occurrence of
\* it in the guess is Absent (red).
C3_EliminatedOnlyIfAbsentEverywhere ==
    pc = "tested" =>
        \A c \in guessed_letters : \A i \in DOMAIN guess : guess[i] = c => Absent(i)

\* C4: guessed_letters never holds a letter of the secret word.
C4_EliminatedNotInSecret == guessed_letters \cap Range(word) = {}

\* C5: for every letter, the guess positions holding it that are Correct or Misplaced
\* are no more than the occurrences of the letter in the secret.
C5_MarkedWithinMultiplicity ==
    pc = "tested" =>
        \A c \in Letters : Cardinality(Marked(c)) <= Count(word, c)

C5_Witness ==
    /\ pc = "tested"
    /\ \E c \in Letters :
          /\ Count(word, c) = 2
          /\ Count(guess, c) = 3
          /\ Cardinality(Marked(c)) = 2

\* C6: when the secret holds a letter once and the guess holds it twice, one of the
\* two is Correct or Misplaced and the other Absent: the Correct one if there is one,
\* else the leftmost one, Misplaced.
C6_OnceInSecretTwiceInGuess ==
    pc = "tested" =>
        \A c \in Letters :
            (Count(word, c) = 1 /\ Count(guess, c) = 2) =>
                \E p \in DOMAIN guess, q \in DOMAIN guess :
                    /\ p < q
                    /\ guess[p] = c
                    /\ guess[q] = c
                    /\ IF word[p] = c
                       THEN c_string[p].fgcolor = CORRECT_COLOR /\ Absent(q)
                       ELSE IF word[q] = c
                       THEN c_string[q].fgcolor = CORRECT_COLOR /\ Absent(p)
                       ELSE c_string[p].fgcolor = MISPLACED_COLOR /\ Absent(q)

C6_Witness ==
    /\ pc = "tested"
    /\ \E c \in Letters :
          /\ Count(word, c) = 1
          /\ Count(guess, c) = 2
          /\ \A i \in DOMAIN guess : guess[i] = c => word[i] # c
          /\ Cardinality(Marked(c)) = 1

\* the guess the turn has sanitized is one ask_for_guess rejects
Rejected(g) == Len(g) # WORD_LENGTH \/ g \notin Range(dictionary)

\* C7: a rejected guess (its sanitized length is not WORD_LENGTH, or it is not in the
\* dictionary) leaves the game awaiting a guess, with the history (and so the count of
\* attempts), guessed_letters, the dictionary and the secret word unchanged.
C7_RejectionChangesNothing ==
    [][(pc = "read_line" /\ Rejected(guess')) =>
            /\ pc' = "read_line"
            /\ guesses' = guesses
            /\ Len(guesses') = Len(guesses)
            /\ guessed_letters' = guessed_letters
            /\ word' = word
            /\ dictionary' = dictionary]_vars

C7_Witness ==
    /\ pc = "read_line"
    /\ out.kind \in {"must_be_letters", "not_in_dictionary"}
    /\ Rejected(guess)
    /\ Len(guesses) >= 1
    /\ guessed_letters # {}

\* C8: a line read has one of three outcomes, decided on its sanitized form: the
\* length message when its length is not WORD_LENGTH; the dictionary message, naming
\* the guess, when its length is WORD_LENGTH and the dictionary does not hold it;
\* accepted, with no message, when the dictionary holds it.
C8_ThreeOutcomes ==
    [][pc = "read_line" =>
            /\ Len(guess') # WORD_LENGTH =>
                    (out'.kind = "must_be_letters" /\ pc' = "read_line")
            /\ (Len(guess') = WORD_LENGTH /\ guess' \notin Range(dictionary)) =>
                    (out'.kind = "not_in_dictionary" /\ out'.word = guess' /\ pc' = "read_line")
            /\ guess' \in Range(dictionary) =>
                    (out'.kind = "none" /\ pc' = "is_game_over")]_vars

C8_Witness ==
    /\ pc = "read_line"
    /\ out.kind = "not_in_dictionary"
    /\ out.word = guess
    /\ Len(guess) = WORD_LENGTH
    /\ guess \notin Range(dictionary)

\* C9: an accepted guess is scored once and its scored guess appended at the end of
\* the history, which grows by one; the scored guess has one coloured character for
\* each position of the guess, the character of position i being guess[i]; the earlier
\* entries, the dictionary and the secret word are unchanged.
C9_AcceptedGuessAppended ==
    [][(pc = "read_line" /\ ~Rejected(guess')) =>
            /\ Len(guesses') = Len(guesses) + 1
            /\ SubSeq(guesses', 1, Len(guesses)) = guesses
            /\ guesses'[Len(guesses')] = c_string'
            /\ Len(c_string') = Len(guess')
            /\ \A i \in DOMAIN guess' :
                    /\ c_string'[i].input = guess'[i]
                    /\ c_string'[i].fgcolor \in {CORRECT_COLOR, MISPLACED_COLOR, INCORRECT_COLOR}
            /\ dictionary' = dictionary
            /\ word' = word]_vars

C9_Witness ==
    /\ Scoring
    /\ Len(guesses) >= 2
    /\ guesses[Len(guesses)] = c_string
    /\ Chars(guesses[1]) # guess

\* a game with the same secret word and dictionary that has scored nothing yet
FreshGame == [dictionary |-> dictionary, word |-> word, guessed_letters |-> {}, guesses |-> <<>>]

\* C10: the colours a guess was given depend on the secret word and the guess alone:
\* every entry of the history is what a fresh game with the same secret gives the
\* same guess, and two entries for the same guess are equal.
C10_ScoringDependsOnSecretAndGuess ==
    /\ \A k \in DOMAIN guesses :
            guesses[k] = colorize_guess(FreshGame, Chars(guesses[k])).guess_array
    /\ \A j \in DOMAIN guesses, k \in DOMAIN guesses :
            Chars(guesses[j]) = Chars(guesses[k]) => guesses[j] = guesses[k]

\* the same guess scored twice, the second time with letters already eliminated
C10_Witness ==
    /\ Len(guesses) >= 2
    /\ Chars(guesses[1]) = Chars(guesses[Len(guesses)])
    /\ \E i \in DOMAIN guesses[1] : guesses[1][i].fgcolor = MISPLACED_COLOR
    /\ guessed_letters # {}

\* C11: guessed_letters only grows: over every step of the game (a guess accepted, a
\* guess rejected, the prompt, the end of the game) the set after the step holds
\* every letter the set before it held.
C11_EliminatedGrows ==
    [][guessed_letters \subseteq guessed_letters']_vars

\* the winning guess, which is green throughout, has kept the letters an earlier
\* guess eliminated
C11_Witness ==
    /\ Won
    /\ Len(guesses) >= 2
    /\ guessed_letters # {}
    /\ \A i \in DOMAIN c_string : c_string[i].fgcolor = CORRECT_COLOR

\* C12: a guess position whose letter is nowhere in the secret is Absent, and the
\* letter is in guessed_letters once the guess is scored; a guess that shares no
\* letter with the secret is Absent everywhere and all its letters are eliminated.
C12_ForeignLettersAbsentAndEliminated ==
    pc = "tested" =>
        /\ \A i \in DOMAIN guess :
                guess[i] \notin Range(word) => (Absent(i) /\ guess[i] \in guessed_letters)
        /\ Range(guess) \cap Range(word) = {} =>
                ((\A i \in DOMAIN guess : Absent(i)) /\ guessed_letters = Range(guess))

C12_Witness ==
    /\ pc = "tested"
    /\ Len(guess) >= 3
    /\ Range(guess) \cap Range(word) = {}
    /\ guessed_letters = Range(guess)

\* the word holds no letter twice
NoRepeatedLetter(w) == \A i \in DOMAIN w, j \in DOMAIN w : w[i] = w[j] => i = j

\* g holds the letters of w, each as often as w does
Rearrangement(w, g) ==
    /\ Len(g) = Len(w)
    /\ \A c \in Range(w) \cup Range(g) : Count(g, c) = Count(w, c)

RECURSIVE UppercaseLetters(_)
UppercaseLetters(s) ==
    IF s = <<>>
    THEN <<>>
    ELSE (IF \A i \in DOMAIN uppercase_of(Head(s)) : uppercase_of(Head(s))[i] \in Range(Upper)
          THEN uppercase_of(Head(s))
          ELSE <<>>) \o UppercaseLetters(Tail(s))

\* C14: sanitize_word gives the uppercase letters of its input in their order, and
\* nothing else ("hello world" gives "HELLOWORLD"); applied to its own result it
\* returns it unchanged.
C14_SanitizeIdempotent ==
    [][/\ pc = "raw" =>
            /\ guess' = UppercaseLetters(guess)
            /\ \A i \in DOMAIN guess' : guess'[i] \in Range(Upper)
            /\ guess = HelloWorld =>
                    guess' = <<"H", "E", "L", "L", "O", "W", "O", "R", "L", "D">>
       /\ pc = "sanitized" => guess' = guess]_vars

C14_Witness ==
    /\ pc = "sanitized_twice"
    /\ guess \in {<<"H", "E", "L", "L", "O", "W", "O", "R", "L", "D">>, <<"A", "S", "S">>}

\* the sanitized forms of the lines k, k + 1, ... of the text that have WORD_LENGTH
\* characters once sanitized, in the order of the lines
RECURSIVE WordsFromLine(_, _)
WordsFromLine(text, k) ==
    IF k > Len(text)
    THEN <<>>
    ELSE (IF Len(sanitize_word(text[k])) = WORD_LENGTH THEN <<sanitize_word(text[k])>> ELSE <<>>)
         \o WordsFromLine(text, k + 1)

\* C15: words_list returns the sanitized forms of the lines after the first 2 whose
\* sanitized length is WORD_LENGTH, in their order, and nothing else: the 2 head lines
\* are left out whatever they hold, and an empty line or one of another length is
\* dropped.
C15_WordsListFiltersAndSkips ==
    pc = "loaded" =>
        /\ dictionary = WordsFromLine(all_words, 3)
        /\ \A i \in DOMAIN dictionary : Len(dictionary[i]) = WORD_LENGTH
        /\ Len(dictionary) =
                Cardinality({k \in 3..Len(all_words) : Len(sanitize_word(all_words[k])) = WORD_LENGTH})

\* the first line would pass for a word, one later line is kept and one is dropped
C15_Witness ==
    /\ pc = "loaded"
    /\ Len(all_words) = 4
    /\ Len(sanitize_word(all_words[1])) = WORD_LENGTH
    /\ Len(dictionary) = 1
    /\ dictionary[1] # sanitize_word(all_words[1])

\* C16: if the player, whenever a guess is awaited, types an acceptable one in the
\* end, the game reaches Won or Lost, with at most MAX_TRIES accepted guesses; a
\* rejected guess never ends it.
C16_GameTerminates ==
    /\ <>(Won \/ Lost)
    /\ [](pc = "exit" => ((Won \/ Lost) /\ Len(guesses) <= MAX_TRIES))
    /\ [][(pc = "read_line" /\ Rejected(guess')) => pc' = "read_line"]_vars

C16_Witness ==
    /\ Lost
    /\ Len(guesses) = MAX_TRIES
    /\ \A k \in DOMAIN guesses : \E i \in DOMAIN guesses[k] : guesses[k][i].fgcolor # CORRECT_COLOR

\* the positions of the guess that hold c and match the secret there
CorrectOf(c) == {j \in DOMAIN guess : guess[j] = c /\ word[j] = c}

\* the positions before i of the scored guess that hold c and are yellow
MisplacedBefore(i, c) ==
    {j \in 1..(i - 1) : c_string[j].input = c /\ c_string[j].fgcolor = MISPLACED_COLOR}

Min(a, b) == IF a <= b THEN a ELSE b

\* C17: a guess position that does not match the secret is Misplaced exactly when the
\* secret's count of its letter, less the Correct positions of that letter, less the
\* earlier positions of that letter already Misplaced, is above zero; so for every
\* letter the positions marked Correct or Misplaced are min(occurrences in the
\* guess, occurrences in the secret) many.
C17_MisplacedByReferenceRule ==
    pc = "tested" =>
        /\ \A i \in DOMAIN guess :
              guess[i] # word[i] =>
                  (c_string[i].fgcolor = MISPLACED_COLOR
                      <=> Count(word, guess[i]) - Cardinality(CorrectOf(guess[i]))
                              - Cardinality(MisplacedBefore(i, guess[i])) > 0)
        /\ \A c \in Letters :
              Cardinality(Marked(c)) = Min(Count(guess, c), Count(word, c))

\* C18: position i of the scored guess is Correct exactly when guess[i] = word[i],
\* so the second pass neither overwrites a green position nor makes one; the scored
\* guess holds the guess's letters; a guess equal to the secret is green at every
\* position and leaves guessed_letters as it was.
C18_CorrectIffSameLetter ==
    /\ [](pc = "tested" =>
            /\ DOMAIN c_string = DOMAIN guess
            /\ \A i \in DOMAIN guess :
                  /\ c_string[i].input = guess[i]
                  /\ c_string[i].fgcolor = CORRECT_COLOR <=> guess[i] = word[i]
            /\ guess = word => \A i \in DOMAIN guess : c_string[i].fgcolor = CORRECT_COLOR)
    /\ [][(pc = "test" /\ guess' = word) => guessed_letters' = guessed_letters]_vars

\* a green position whose letter the secret holds once more, at a position the guess
\* misses: the second pass has a count left when it comes to the green position
C18_Witness ==
    /\ pc = "tested"
    /\ \E i, j \in DOMAIN guess :
          /\ c_string[i].fgcolor = CORRECT_COLOR
          /\ word[j] = guess[i]
          /\ guess[j] # word[j]
          /\ \A k \in DOMAIN guess : c_string[k].fgcolor # MISPLACED_COLOR

\* C19: the count of tries is the length of the history: it starts at 0, an accepted
\* guess adds one to it and no other step changes it, it is the count printed with a
\* win, and it never exceeds MAX_TRIES; once the game is over nothing changes any
\* more: no guess is read, scored or appended.
C19_TriesBoundedAndOverIsFinal ==
    /\ Len(guesses) = 0
    /\ [](Len(guesses) <= MAX_TRIES)
    /\ [](out.kind = "correct" => out.n_tries = Len(guesses))
    /\ [][Len(guesses') = Len(guesses)
                + (IF pc = "read_line" /\ pc' = "is_game_over" THEN 1 ELSE 0)]_vars
    /\ [][pc # "exit"]_vars
    /\ []((Won \/ Lost) => [](Won \/ Lost))

C19_Witness ==
    /\ Won
    /\ out.n_tries = Len(guesses)
    /\ Len(guesses) \in 2..(MAX_TRIES - 1)

\* C20: the secret word is a word of the dictionary and has WORD_LENGTH characters,
\* as every word of the dictionary has, so it is itself a guess the game accepts;
\* every guess the scorer is called with, and so every guess of the history, is a
\* word of the dictionary with WORD_LENGTH characters, the length of the secret:
\* word.chars().nth(pos) is there for every position of the guess.
C20_ScorerPreconditionHolds ==
    /\ [](/\ word \in Range(dictionary)
          /\ Len(word) = WORD_LENGTH
          /\ \A i \in DOMAIN dictionary : Len(dictionary[i]) = WORD_LENGTH
          /\ ~Rejected(word)
          /\ Scoring => (guess \in Range(dictionary) /\ Len(guess) = Len(word))
          /\ \A k \in DOMAIN guesses :
                /\ Chars(guesses[k]) \in Range(dictionary)
                /\ DOMAIN guesses[k] = DOMAIN word)
    /\ [][(pc = "read_line" /\ c_string' # <<>>) =>
            /\ guess' \in Range(dictionary)
            /\ Len(guess') = WORD_LENGTH
            /\ DOMAIN guess' \subseteq DOMAIN word]_vars

\* a guess other than the secret has been scored, and then the secret itself
C20_Witness ==
    /\ Scoring
    /\ guess = word
    /\ Len(guesses) >= 2
    /\ \E k \in DOMAIN guesses : Chars(guesses[k]) # word
    /\ Len(dictionary) >= 2

====
